---- MODULE Spec2Model ----
(***************************************************************************)
(* HAL message envelope (storm_control/hal4000/halLib/halMessage.py).      *)
(*                                                                         *)
(* The module models                                                       *)
(*   - the registry of valid message types and addMessage(), called from   *)
(*     two threads, each call split where the interpreter can switch       *)
(*     threads (between the membership test and the store);                *)
(*   - HalMessage / SyncMessage construction, addError, addResponse and    *)
(*     finalize, also under a caller that uses the envelope directly;      *)
(*   - the dispatcher that the envelope is written for.  Its code is not   *)
(*     part of halMessage.py; it is modelled from the specification        *)
(*     (sections 2, 3, 5 and 6).                                           *)
(***************************************************************************)
EXTENDS Integers, Sequences, FiniteSets

(***************************************************************************)
(* Bounds of the model.                                                    *)
(***************************************************************************)
\* Largest number of modules (recipients) on the dispatcher's module list.
NumModules == 2
\* Largest number of messages sent in one run.
MaxMessages == 2
\* Largest number of addError / addResponse calls a direct caller makes.
MaxCalls == 3
\* Largest number of finalize() calls a direct caller makes on one message.
MaxFinalize == 2
\* Largest number of logEvent() calls a direct caller makes on one message.
MaxLogCalls == 2

(***************************************************************************)
(* Values.                                                                 *)
(***************************************************************************)
\* Python's None.
None == "None"

\* The keys of the valid_messages dictionary literal.
BuiltinMessages ==
    { "add to ui", "close event", "configure1", "configure2",
      "current parameters", "module", "new directory",
      "new parameters file", "new shutters file", "start", "sync" }

\* Names passed to addMessage(): two that are built in, two that are not.
TestNames == { "sync", "start", "film", "feeds" }

\* The threads that call addMessage().
Threads == { 1, 2 }

\* module_name of the i-th module of the module list.
ModuleName(i) == IF i = 1 THEN "camera" ELSE IF i = 2 THEN "film" ELSE "stage"

\* module_name of the objects that send messages.
Senders == { "core" }

VARIABLES
    valid_messages, \* the keys of the valid_messages dictionary
    apc,            \* position of each thread inside addMessage()
    aname,          \* the name argument of each thread's call
    acheck,         \* the check_exists argument of each thread's call
    apre,           \* whether name was a key when the call tested it
    nmod,           \* length of the dispatcher's module list
    order,          \* whether the dispatcher counts every recipient of a
                    \* message before it delivers the message to the first
    msgs,           \* the HalMessage objects, in send order
    cls,            \* per message: the class it is an instance of
    phase,          \* dispatcher's position for each message
    rstate,         \* per message, per recipient: progress of the delivery
    rcall,          \* per message, per recipient: what the recipient added
    fin_calls,      \* per message: how many times finalize() was called
    added,          \* per message: the arguments of the addError calls and
                    \* of the addResponse calls, each in call order
    logged,         \* per message: the event names of the logEvent() calls
                    \* made from outside the class, in call order
    effects         \* what logEvent() wrote and which finalizers ran

regvars  == << valid_messages, apc, aname, acheck, apre >>
dispvars == << nmod, order, msgs, cls, phase, rstate, rcall, fin_calls, added,
               logged, effects >>
vars     == << valid_messages, apc, aname, acheck, apre,
               nmod, order, msgs, cls, phase, rstate, rcall, fin_calls, added,
               logged, effects >>

(***************************************************************************)
(* The registry of message types: valid_messages and addMessage().         *)
(***************************************************************************)
\* Faulty variant: the check_exists flag is ignored.
addMessageRaisesAlways(valid, name, check_exists) == name \in valid

\* `if check_exists and name in valid_messages:` -- does the call raise?
addMessageRaises(valid, name, check_exists) ==
    check_exists /\ name \in valid

\* Faulty variant: the store replaces the dictionary.
addMessageStoreReplace(valid, name) == { name }

\* `valid_messages[name] = True` -- the keys after the store.
addMessageStore(valid, name) == valid \cup { name }

\* A thread enters addMessage(name, check_exists) and evaluates the condition
\* of the if statement: it either raises HalException or goes on to the store.
AddMessageCheck(t, name, check_exists) ==
    /\ apc[t] = "idle"
    /\ aname'  = [aname  EXCEPT ![t] = name]
    /\ acheck' = [acheck EXCEPT ![t] = check_exists]
    /\ apre'   = [apre   EXCEPT ![t] = name \in valid_messages]
    /\ apc' = [apc EXCEPT ![t] =
                 IF addMessageRaises(valid_messages, name, check_exists)
                 THEN "raised" ELSE "checked"]
    /\ UNCHANGED valid_messages
    /\ UNCHANGED dispvars

\* The thread executes the store and the call returns normally.
AddMessageStore(t) ==
    /\ apc[t] = "checked"
    /\ valid_messages' = addMessageStore(valid_messages, aname[t])
    /\ apc' = [apc EXCEPT ![t] = "ok"]
    /\ UNCHANGED << aname, acheck, apre >>
    /\ UNCHANGED dispvars

\* The caller has seen the outcome of its call and may call again.
AddMessageReturn(t) ==
    /\ apc[t] \in { "ok", "raised" }
    /\ apc' = [apc EXCEPT ![t] = "idle"]
    /\ UNCHANGED << valid_messages, aname, acheck, apre >>
    /\ UNCHANGED dispvars

RegInit ==
    /\ valid_messages = BuiltinMessages
    /\ apc    = [t \in Threads |-> "idle"]
    /\ aname  = [t \in Threads |-> "sync"]
    /\ acheck = [t \in Threads |-> TRUE]
    /\ apre   = [t \in Threads |-> TRUE]

(***************************************************************************)
(* HalMessageError and HalMessageResponse.                                 *)
(***************************************************************************)
\* Faulty variant: the exception is not stored.
HalMessageErrorNoException(source, message, m_exception) ==
    [ source |-> source, message |-> message, m_exception |-> None ]

\* HalMessageError.__init__(source, message, m_exception)
HalMessageError(source, message, m_exception) ==
    [ source |-> source, message |-> message, m_exception |-> m_exception ]

\* HalMessageError.hasException()
hasException(e) == e.m_exception # None

\* HalMessageResponse.__init__(source, data)
HalMessageResponse(source, data) == [ source |-> source, data |-> data ]

(***************************************************************************)
(* HalMessage and SyncMessage.                                             *)
(***************************************************************************)
\* Faulty variant: the sync argument is dropped.
HalMessageNoSync(m_type, source, data, sync, level, finalizer) ==
    [ source |-> source, data |-> data, m_type |-> m_type,
      sync |-> FALSE, level |-> level, finalizer |-> finalizer,
      m_errors |-> << >>, responses |-> << >>, ref_count |-> 0 ]

\* Faulty variant: ref_count does not start at 0.
HalMessageBadCount(m_type, source, data, sync, level, finalizer) ==
    [ source |-> source, data |-> data, m_type |-> m_type,
      sync |-> sync, level |-> level, finalizer |-> finalizer,
      m_errors |-> << >>, responses |-> << >>, ref_count |-> 0 - 1 ]

\* HalMessageBase.__init__ and HalMessage.__init__: the fields of the new
\* object (m_type and source are set by the base class).  The fields are
\* written in the order in which TLC keeps the fields of a record.
HalMessage(m_type, source, data, sync, level, finalizer) ==
    [ source |-> source, data |-> data, m_type |-> m_type,
      sync |-> sync, level |-> level, finalizer |-> finalizer,
      m_errors |-> << >>, responses |-> << >>, ref_count |-> 0 ]

\* Faulty variant: the barrier message is built without sync = True.
SyncMessageNoSync(source) == HalMessage("sync", source, None, FALSE, 1, None)

\* SyncMessage.__init__(source): m_type "sync", sync True, the rest default.
SyncMessage(source) == HalMessage("sync", source, None, TRUE, 1, None)

\* HalMessage.logEvent(event_name): one line of text handed to hdebug.logText,
\* kept as its four comma separated fields.  id stands for id(self).
logEvent(eff, event_name, id, msg) ==
    Append(eff, << "log", event_name, id, msg.source, msg.m_type >>)

\* The call self.finalizer().
callFinalizer(eff, id, msg) ==
    Append(eff, << "call", msg.finalizer, id >>)

\* Faulty variant: the creation is logged whatever the level.
initLogAlways(eff, id, msg) == logEvent(eff, "created", id, msg)

\* The tail of HalMessage.__init__: `if (self.level == 1): logEvent("created")`
initLog(eff, id, msg) ==
    IF msg.level = 1 THEN logEvent(eff, "created", id, msg) ELSE eff

\* Faulty variant: adding an error also gives up a reference.
addErrorReleases(msg, e) ==
    [msg EXCEPT !.m_errors = Append(msg.m_errors, e), !.ref_count = @ - 1]

\* Faulty variant: the error is put in front of the list.
addErrorInFront(msg, e) == [msg EXCEPT !.m_errors = << e >> \o msg.m_errors]

\* HalMessage.addError(hal_message_error)
addError(msg, e) == [msg EXCEPT !.m_errors = Append(msg.m_errors, e)]

\* Faulty variant: the new response replaces the list (a lost update).
addResponseOverwrite(msg, r) == [msg EXCEPT !.responses = << r >>]

\* HalMessage.addResponse(hal_message_response)
addResponse(msg, r) == [msg EXCEPT !.responses = Append(msg.responses, r)]

\* Faulty variant: the finalizer is called twice.
finalizeTwice(eff, id, msg) ==
    LET e1 == IF msg.level = 1 THEN logEvent(eff, "destroyed", id, msg) ELSE eff
    IN  IF msg.finalizer # None
        THEN callFinalizer(callFinalizer(e1, id, msg), id, msg) ELSE e1

\* Faulty variant: the finalizer runs before the destruction is logged.
finalizeCallbackFirst(eff, id, msg) ==
    LET e1 == IF msg.finalizer # None THEN callFinalizer(eff, id, msg) ELSE eff
    IN  IF msg.level = 1 THEN logEvent(e1, "destroyed", id, msg) ELSE e1

\* Faulty variant: a single-fire guard on the reference count.
finalizeWhenZero(eff, id, msg) ==
    LET e1 == IF msg.level = 1 THEN logEvent(eff, "destroyed", id, msg) ELSE eff
    IN  IF msg.finalizer # None /\ msg.ref_count = 0
        THEN callFinalizer(e1, id, msg) ELSE e1

\* HalMessage.finalize(): what it adds to the log and which callback it runs.
finalize(eff, id, msg) ==
    LET e1 == IF msg.level = 1 THEN logEvent(eff, "destroyed", id, msg) ELSE eff
    IN  IF msg.finalizer # None THEN callFinalizer(e1, id, msg) ELSE e1

\* Faulty variant: hasErrors looks at the responses.
hasErrorsOfResponses(msg) == Len(msg.responses) > 0

\* The accessors.
getData(msg) == msg.data
getErrors(msg) == msg.m_errors
getResponses(msg) == msg.responses
hasErrors(msg) == Len(msg.m_errors) > 0
hasResponses(msg) == Len(msg.responses) > 0
getType(msg) == msg.m_type
getSource(msg) == msg.source

(***************************************************************************)
(* The dispatcher and the recipients (specification sections 2, 3, 5, 6).  *)
(* The dispatcher walks its module list for one message at a time: it      *)
(* increments ref_count once per recipient it will deliver to, delivers to *)
(* each recipient, and decrements the count as each recipient signals      *)
(* done; the decrement and the test for zero that triggers finalize() are  *)
(* one atomic step.  Section 2 has the dispatcher count every recipient    *)
(* and then deliver; sections 3 and 6 only ask for the increment of a      *)
(* recipient before the delivery to that recipient.  The variable order    *)
(* says which of the two a dispatcher does.  A message that has no         *)
(* recipient has its count at zero when the dispatcher has walked the      *)
(* (empty) list, and is finalized there.                                   *)
(***************************************************************************)
Ids == 1 .. Len(msgs)
Recipients == 1 .. nmod

\* "counted first": every increment for a message precedes its first
\* delivery.  "any": a recipient is counted before the message is delivered
\* to it, and nothing more is fixed.
DeliveryOrders == { "counted first", "any" }

\* Arguments of the HalMessage(...) calls the sender makes.
\* << m_type, data, sync, level, finalizer >>
HalMessageArgs ==
    { << "start", None, FALSE, 1, None >>,
      << "configure1", "params", FALSE, 2, "cb" >>,
      << "new directory", "params", TRUE, 1, "cb" >> }

\* What a recipient may attach as the exception of an error.
Exceptions == { None, "HalException" }

Finalized(m) == fin_calls[m] > 0
\* The dispatcher has the message in flight.
InFlight(m) == phase[m] # "queued" /\ ~Finalized(m)
\* Delivery of the message to recipient r has begun.
DeliveredTo(m, r) == rstate[m][r] \in { "delivered", "processed", "done" }
BegunDelivery(m) == \E r \in Recipients : DeliveredTo(m, r)
AllDone(m) == \A r \in Recipients : rstate[m][r] = "done"

\* The sender constructs a message and puts it at the end of the queue.
Enqueue(msg, class) ==
    /\ Len(msgs) < MaxMessages
    /\ msgs' = Append(msgs, msg)
    /\ cls' = Append(cls, class)
    /\ phase' = Append(phase, "queued")
    /\ rstate' = Append(rstate, [r \in Recipients |-> "none"])
    /\ rcall' = Append(rcall, [r \in Recipients |-> "nothing"])
    /\ fin_calls' = Append(fin_calls, 0)
    /\ added' = Append(added, << << >>, << >> >>)
    /\ logged' = Append(logged, << >>)
    /\ effects' = initLog(effects, Len(msgs) + 1, msg)
    /\ UNCHANGED << nmod, order >>
    /\ UNCHANGED regvars

SendMessage(source, a) ==
    Enqueue(HalMessage(a[1], source, a[2], a[3], a[4], a[5]), "HalMessage")

SendSyncMessage(source) == Enqueue(SyncMessage(source), "SyncMessage")

\* The dispatcher admits the next message of the queue.  A synchronous
\* message waits until everything ahead of it has finalized, and nothing is
\* admitted behind a synchronous message that has not finalized.  With an
\* empty module list there is nothing to count or to deliver: the message is
\* dispatched, and finalize() is called as its count is zero.
BeginDispatch(m) ==
    /\ phase[m] = "queued"
    /\ \A i \in 1 .. m - 1 : phase[i] = "dispatched"
    /\ msgs[m].sync => \A i \in 1 .. m - 1 : Finalized(i)
    /\ \A i \in 1 .. m - 1 : msgs[i].sync => Finalized(i)
    /\ phase' = [phase EXCEPT ![m] =
                   IF nmod = 0 THEN "dispatched" ELSE "counting"]
    /\ IF nmod = 0 /\ msgs[m].ref_count = 0
       THEN /\ fin_calls' = [fin_calls EXCEPT ![m] = @ + 1]
            /\ effects' = finalize(effects, m, msgs[m])
       ELSE UNCHANGED << fin_calls, effects >>
    /\ UNCHANGED << cls, logged >>
    /\ UNCHANGED << nmod, order >>
    /\ UNCHANGED << msgs, rstate, rcall, added >>
    /\ UNCHANGED regvars

\* ref_count += 1 for the next recipient of the module list.
IncRefCount(m, r) ==
    /\ phase[m] = "counting"
    /\ rstate[m][r] = "none"
    /\ \A q \in 1 .. r - 1 : rstate[m][q] # "none"
    /\ msgs' = [msgs EXCEPT ![m].ref_count = @ + 1]
    /\ rstate' = [rstate EXCEPT ![m][r] = "counted"]
    /\ phase' = [phase EXCEPT ![m] = IF r = nmod THEN "delivering" ELSE @]
    /\ UNCHANGED << nmod, order >>
    /\ UNCHANGED << cls, logged, rcall, fin_calls, added, effects >>
    /\ UNCHANGED regvars

\* The message is handed to the next recipient of the module list, which
\* has been counted; a dispatcher that counts first has counted them all.
Deliver(m, r) ==
    /\ \/ phase[m] = "delivering"
       \/ order = "any" /\ phase[m] = "counting"
    /\ rstate[m][r] = "counted"
    /\ \A q \in 1 .. r - 1 : rstate[m][q] # "counted"
    /\ rstate' = [rstate EXCEPT ![m][r] = "delivered"]
    /\ phase' = [phase EXCEPT ![m] = IF r = nmod THEN "dispatched" ELSE @]
    /\ UNCHANGED << cls, logged >>
    /\ UNCHANGED << nmod, order, msgs, rcall, fin_calls, added, effects >>
    /\ UNCHANGED regvars

\* A recipient answers the message: message.addResponse(...).
RecipientAddResponse(m, r) ==
    /\ rstate[m][r] = "delivered"
    /\ msgs' = [msgs EXCEPT ![m] =
                  addResponse(@, HalMessageResponse(ModuleName(r), r))]
    /\ rstate' = [rstate EXCEPT ![m][r] = "processed"]
    /\ rcall' = [rcall EXCEPT ![m][r] = "response"]
    /\ added' = [added EXCEPT ![m][2] =
                   Append(@, HalMessageResponse(ModuleName(r), r))]
    /\ UNCHANGED << cls, logged, nmod, order, phase, fin_calls, effects >>
    /\ UNCHANGED regvars

\* A recipient reports a warning (no exception) or a fatal error:
\* message.addError(...).
RecipientAddError(m, r, exc) ==
    /\ rstate[m][r] = "delivered"
    /\ msgs' = [msgs EXCEPT ![m] =
                  addError(@, HalMessageError(ModuleName(r), "failed", exc))]
    /\ rstate' = [rstate EXCEPT ![m][r] = "processed"]
    /\ rcall' = [rcall EXCEPT ![m][r] = IF exc = None THEN "warning" ELSE "fatal"]
    /\ added' = [added EXCEPT ![m][1] =
                   Append(@, HalMessageError(ModuleName(r), "failed", exc))]
    /\ UNCHANGED << cls, logged, nmod, order, phase, fin_calls, effects >>
    /\ UNCHANGED regvars

\* A recipient signals that it is done with the message: ref_count -= 1 and,
\* in the same atomic step, finalize() when the count is zero.
SignalDone(m, r) ==
    /\ rstate[m][r] \in { "delivered", "processed" }
    /\ rstate' = [rstate EXCEPT ![m][r] = "done"]
    /\ msgs' = [msgs EXCEPT ![m].ref_count = @ - 1]
    /\ IF msgs[m].ref_count - 1 = 0
       THEN /\ fin_calls' = [fin_calls EXCEPT ![m] = @ + 1]
            /\ effects' = finalize(effects, m, msgs[m])
       ELSE UNCHANGED << fin_calls, effects >>
    /\ UNCHANGED << cls, logged, nmod, order, phase, rcall, added >>
    /\ UNCHANGED regvars

DispInit ==
    /\ nmod \in 0 .. NumModules
    /\ order \in DeliveryOrders
    /\ msgs = << >>
    /\ cls = << >>
    /\ phase = << >>
    /\ rstate = << >>
    /\ rcall = << >>
    /\ fin_calls = << >>
    /\ added = << >>
    /\ logged = << >>
    /\ effects = << >>

(***************************************************************************)
(* Specifications.                                                         *)
(***************************************************************************)
Init == RegInit /\ DispInit /\ order = "counted first"

Next ==
    \/ \E source \in Senders, a \in HalMessageArgs : SendMessage(source, a)
    \/ \E source \in Senders : SendSyncMessage(source)
    \/ \E m \in Ids : BeginDispatch(m)
    \/ \E m \in Ids, r \in Recipients : IncRefCount(m, r)
    \/ \E m \in Ids, r \in Recipients : Deliver(m, r)
    \/ \E m \in Ids, r \in Recipients : RecipientAddResponse(m, r)
    \/ \E m \in Ids, r \in Recipients, exc \in Exceptions :
          RecipientAddError(m, r, exc)
    \/ \E m \in Ids, r \in Recipients : SignalDone(m, r)

\* The dispatcher of section 2, the recipients and the envelopes.
Spec == Init /\ [][Next]_vars

\* The same with a dispatcher of either order.
AnyOrderInit == RegInit /\ DispInit

AnyOrderSpec == AnyOrderInit /\ [][Next]_vars

RegNext ==
    \/ \E t \in Threads, name \in TestNames, check_exists \in BOOLEAN :
          AddMessageCheck(t, name, check_exists)
    \/ \E t \in Threads : AddMessageStore(t)
    \/ \E t \in Threads : AddMessageReturn(t)

\* The registry and the threads that call addMessage().
RegSpec == Init /\ [][RegNext]_vars

(***************************************************************************)
(* The envelope used directly: a caller that constructs one message and    *)
(* calls addError, addResponse, finalize and logEvent on it in any order   *)
(* and any number of times, and writes ref_count as the dispatcher does.   *)
(***************************************************************************)
\* source of the constructed message.
Sources == { "core", "camera" }

\* The HalMessageError objects passed to addError: a warning and a fatal
\* error; the source is any string, the empty default included.
\* << source, message, m_exception >>
ErrorCtorArgs ==
    { << "camera", "busy", None >>, << "", "failed", "HalException" >> }

ErrorArgs == { HalMessageError(a[1], a[2], a[3]) : a \in ErrorCtorArgs }

\* The HalMessageResponse objects passed to addResponse.
ResponseArgs ==
    { HalMessageResponse("film", "params"), HalMessageResponse("", None) }

\* The event names passed to logEvent() by the caller: the two the class
\* uses itself and one of the caller's own.
EventNames == { "created", "destroyed", "checked" }

\* How many addError and addResponse calls have been made in all.
CallsMade(m) == Len(added[m][1]) + Len(added[m][2])

\* HalMessage(...) called by the caller.
Construct(source, a) ==
    /\ Len(msgs) = 0
    /\ SendMessage(source, a)

\* SyncMessage(source) called by the caller.
ConstructSync(source) ==
    /\ Len(msgs) = 0
    /\ SendSyncMessage(source)

\* message.addError(e)
CallAddError(m, e) ==
    /\ CallsMade(m) < MaxCalls
    /\ msgs' = [msgs EXCEPT ![m] = addError(@, e)]
    /\ added' = [added EXCEPT ![m][1] = Append(@, e)]
    /\ UNCHANGED << cls, logged >>
    /\ UNCHANGED << nmod, order, phase, rstate, rcall, fin_calls, effects >>
    /\ UNCHANGED regvars

\* message.addResponse(r)
CallAddResponse(m, r) ==
    /\ CallsMade(m) < MaxCalls
    /\ msgs' = [msgs EXCEPT ![m] = addResponse(@, r)]
    /\ added' = [added EXCEPT ![m][2] = Append(@, r)]
    /\ UNCHANGED << cls, logged >>
    /\ UNCHANGED << nmod, order, phase, rstate, rcall, fin_calls, effects >>
    /\ UNCHANGED regvars

\* message.finalize()
CallFinalize(m) ==
    /\ fin_calls[m] < MaxFinalize
    /\ fin_calls' = [fin_calls EXCEPT ![m] = @ + 1]
    /\ effects' = finalize(effects, m, msgs[m])
    /\ UNCHANGED << nmod, order >>
    /\ UNCHANGED << cls, logged, msgs, phase, rstate, rcall, added >>
    /\ UNCHANGED regvars

\* message.logEvent(event_name): the method is public and looks neither at
\* the level nor at what has been logged before.
CallLogEvent(m, event_name) ==
    /\ Len(logged[m]) < MaxLogCalls
    /\ logged' = [logged EXCEPT ![m] = Append(@, event_name)]
    /\ effects' = logEvent(effects, event_name, m, msgs[m])
    /\ UNCHANGED << nmod, order >>
    /\ UNCHANGED << cls, msgs, phase, rstate, rcall, fin_calls, added >>
    /\ UNCHANGED regvars

\* message.ref_count += 1
CallIncRefCount(m) ==
    /\ msgs[m].ref_count < NumModules
    /\ msgs' = [msgs EXCEPT ![m].ref_count = @ + 1]
    /\ UNCHANGED << cls, logged >>
    /\ UNCHANGED << nmod, order >>
    /\ UNCHANGED << phase, rstate, rcall, fin_calls, added, effects >>
    /\ UNCHANGED regvars

EnvInit == RegInit /\ DispInit /\ nmod = 0 /\ order = "counted first"

EnvNext ==
    \/ \E source \in Sources, a \in HalMessageArgs : Construct(source, a)
    \/ \E source \in Sources : ConstructSync(source)
    \/ \E m \in Ids, e \in ErrorArgs : CallAddError(m, e)
    \/ \E m \in Ids, r \in ResponseArgs : CallAddResponse(m, r)
    \/ \E m \in Ids : CallFinalize(m)
    \/ \E m \in Ids, event_name \in EventNames : CallLogEvent(m, event_name)
    \/ \E m \in Ids : CallIncRefCount(m)

\* One envelope and a caller of its methods.
EnvSpec == EnvInit /\ [][EnvNext]_vars

\* The dispatcher with the scheduling it is specified to have: a message it
\* has admitted is counted and delivered, and every recipient that got a
\* message signals done.
FairSpec ==
    /\ Spec
    /\ WF_vars(\E m \in Ids : BeginDispatch(m))
    /\ WF_vars(\E m \in Ids, r \in Recipients : IncRefCount(m, r))
    /\ WF_vars(\E m \in Ids, r \in Recipients : Deliver(m, r))
    /\ WF_vars(\E m \in Ids, r \in Recipients : SignalDone(m, r))

(***************************************************************************)
(* Properties.                                                             *)
(***************************************************************************)
\* How many times the finalizer of message m has been called.
CallbackCalls(m) ==
    Cardinality({ i \in DOMAIN effects :
                    effects[i][1] = "call" /\ effects[i][3] = m })

\* Recipients of m whose call was of the given kind.
Callers(m, kinds) == { r \in Recipients : rcall[m][r] \in kinds }

\* The sync attribute of the message.
IsSynchronous(m) == msgs[m].sync

\* isinstance(message, SyncMessage)
IsSyncMessage(m) == cls[m] = "SyncMessage"

\* The event names of the given kind among the caller's own logEvent() calls.
CallerLogged(m, event_name) ==
    { i \in DOMAIN logged[m] : logged[m][i] = event_name }

C2_NoEarlyFinalizeAnyOrder ==
    \A m \in Ids :
        (Finalized(m) \/ CallbackCalls(m) > 0) => AllDone(m)

\* C2 for a dispatcher that makes every increment for a message before it
\* delivers the message to the first recipient: the message is never
\* finalized, and its finalizer never called, while one of its recipients
\* has not been delivered to or has not signalled done.
C2_NoEarlyFinalize ==
    order = "counted first" =>
        \A m \in Ids :
            (Finalized(m) \/ CallbackCalls(m) > 0) => AllDone(m)

\* Under a dispatcher that counts first, a message with a finalizer and two
\* recipients, one of which added a response and the other an error, has
\* finalized and called its finalizer.
C2_Witness ==
    \E m \in Ids :
        /\ order = "counted first"
        /\ nmod = 2 /\ Finalized(m) /\ CallbackCalls(m) = 1
        /\ Len(msgs[m].responses) = 1 /\ Len(msgs[m].m_errors) = 1

\* C3: when finalize() has been called once the finalizer has been called
\* once if there is one and not at all if it is None; while finalize() has
\* not been called (construction, addError, addResponse) it has not run.
C3_CallbackOncePerFinalize ==
    \A m \in Ids :
        /\ fin_calls[m] = 1 =>
             CallbackCalls(m) = (IF msgs[m].finalizer # None THEN 1 ELSE 0)
        /\ fin_calls[m] = 0 => CallbackCalls(m) = 0

\* One finalized message with a finalizer, one finalized message without,
\* and both had errors or responses added.
C3_Witness ==
    \E m, k \in Ids :
        /\ fin_calls[m] = 1 /\ msgs[m].finalizer # None /\ CallbackCalls(m) = 1
        /\ fin_calls[k] = 1 /\ msgs[k].finalizer = None /\ CallbackCalls(k) = 0
        /\ hasErrors(msgs[m]) /\ hasResponses(msgs[k])

\* C4: the responses of a message are exactly one entry per recipient that
\* called addResponse, and its errors exactly one entry per recipient that
\* called addError, whatever the order of the calls.
C4_NoLostOrDuplicatedEntry ==
    \A m \in Ids :
        /\ Len(msgs[m].responses) = Cardinality(Callers(m, { "response" }))
        /\ \A r \in Callers(m, { "response" }) :
              \E i \in DOMAIN msgs[m].responses :
                 msgs[m].responses[i] = HalMessageResponse(ModuleName(r), r)
        /\ Len(msgs[m].m_errors) =
              Cardinality(Callers(m, { "warning", "fatal" }))
        /\ \A r \in Callers(m, { "warning", "fatal" }) :
              \E i \in DOMAIN msgs[m].m_errors :
                 /\ msgs[m].m_errors[i].source = ModuleName(r)
                 /\ hasException(msgs[m].m_errors[i]) <=> rcall[m][r] = "fatal"

\* Both recipients of one message called addResponse, the second recipient
\* of the module list first, and the message has finalized.
C4_Witness ==
    \E m \in Ids :
        /\ nmod = 2 /\ Finalized(m)
        /\ Len(msgs[m].responses) = 2
        /\ msgs[m].responses[1].source = ModuleName(2)

\* C5: no message sent after a synchronous message (sync true, and every
\* SyncMessage) begins delivery to any recipient before the synchronous
\* message has finalized.
C5_NothingPassesBarrier ==
    \A i, j \in Ids :
        (i < j /\ (IsSynchronous(i) \/ IsSyncMessage(i)) /\ BegunDelivery(j))
            => Finalized(i)

\* A message sent after a SyncMessage is being delivered.
C5_Witness ==
    \E i, j \in Ids :
        /\ i < j /\ IsSyncMessage(i) /\ msgs[i].sync
        /\ BegunDelivery(j) /\ Finalized(i)

\* C6: when a synchronous message (sync true, and every SyncMessage) is
\* delivered, every message sent before it has finalized.
C6_BarrierWaitsForEarlier ==
    \A i, j \in Ids :
        (i < j /\ (IsSynchronous(j) \/ IsSyncMessage(j)) /\ BegunDelivery(j))
            => Finalized(i)

\* A HalMessage with sync = True is being delivered behind an earlier
\* message that is not synchronous.
C6_Witness ==
    \E i, j \in Ids :
        /\ i < j /\ msgs[j].sync /\ msgs[j].m_type = "new directory"
        /\ ~msgs[i].sync /\ BegunDelivery(j) /\ Finalized(i)

\* C7: a call with check_exists true and a name that is already registered
\* raises and leaves the registry as it is; a call with check_exists false
\* and such a name returns normally and leaves the membership as it is; a
\* call with a name that is not registered returns normally for either flag
\* and the name is a member afterwards.
C7_AddMessageContract ==
    [][ \A t \in Threads :
          /\ (apc[t] = "idle" /\ apc'[t] # "idle") =>
                /\ valid_messages' = valid_messages
                /\ (apc'[t] = "raised")
                     <=> (acheck'[t] /\ aname'[t] \in valid_messages)
                /\ (apc'[t] = "checked")
                     <=> (~acheck'[t] \/ aname'[t] \notin valid_messages)
          /\ (apc[t] = "checked" /\ apc'[t] # "checked") =>
                /\ apc'[t] = "ok"
                /\ aname[t] \in valid_messages'
                /\ aname[t] \in valid_messages =>
                      valid_messages' = valid_messages
                /\ aname[t] \notin valid_messages =>
                      valid_messages' = valid_messages \cup { aname[t] } ]_vars

\* One thread re-registered a built-in name with check_exists false and
\* returned normally, the other asked for the strict check and raised.
C7_Witness ==
    \E t, u \in Threads :
        /\ apc[t] = "ok" /\ apre[t] /\ ~acheck[t]
        /\ apc[u] = "raised" /\ acheck[u]
        /\ "film" \in valid_messages

\* C8: the registry only grows: no step removes a name, so the built-in
\* names and every name that was registered stay members.
C8_RegistryOnlyGrows ==
    /\ [][ valid_messages \subseteq valid_messages' ]_vars
    /\ [](BuiltinMessages \subseteq valid_messages)

\* Both new names have been registered and a strict call has failed.
C8_Witness ==
    /\ valid_messages = BuiltinMessages \cup { "film", "feeds" }
    /\ \E t \in Threads : apc[t] = "raised"

\* C9: of two calls with check_exists true for the same name that was not
\* registered, at most one returns normally.
C9_StrictRegistersOnce ==
    \A t, u \in Threads :
        (/\ t # u
         /\ aname[t] = aname[u]
         /\ acheck[t] /\ acheck[u]
         /\ ~apre[t] /\ ~apre[u])
        => ~(apc[t] = "ok" /\ apc[u] = "ok")

\* C10: addError only appends: the step in which a recipient adds a warning
\* or a fatal error leaves ref_count, the finalizer, the data and the
\* responses alone, calls nothing and keeps the message in flight; and a
\* message that got a fatal error is finalized once, with its finalizer
\* called once if it has one, when all its recipients are done.
C10_ErrorsOnlyAccumulate ==
    /\ [][ \A m \in Ids : \A r \in Recipients :
             (rcall[m][r] = "nothing"
                /\ rcall'[m][r] \in { "warning", "fatal" }) =>
                /\ msgs'[m].ref_count = msgs[m].ref_count
                /\ msgs'[m].finalizer = msgs[m].finalizer
                /\ msgs'[m].data = msgs[m].data
                /\ msgs'[m].responses = msgs[m].responses
                /\ Len(msgs'[m].m_errors) = Len(msgs[m].m_errors) + 1
                /\ fin_calls' = fin_calls
                /\ effects' = effects
                /\ phase' = phase
                /\ InFlight(m) /\ InFlight(m)' ]_vars
    /\ [](\A m \in Ids :
             (/\ AllDone(m)
              /\ \E i \in DOMAIN msgs[m].m_errors :
                    hasException(msgs[m].m_errors[i])) =>
                /\ fin_calls[m] = 1
                /\ CallbackCalls(m) =
                     (IF msgs[m].finalizer # None THEN 1 ELSE 0))

\* A message with a finalizer got a fatal error from one recipient and a
\* warning from the other, and has finalized.
C10_Witness ==
    \E m \in Ids :
        /\ nmod = 2 /\ Finalized(m) /\ msgs[m].finalizer # None
        /\ Len(msgs[m].m_errors) = 2
        /\ hasException(msgs[m].m_errors[1])
        /\ ~hasException(msgs[m].m_errors[2])

\* The events of the given name that logEvent() wrote for message m.
LogEvents(m, event_name) ==
    { i \in DOMAIN effects :
        effects[i][1] = "log" /\ effects[i][2] = event_name
          /\ effects[i][3] = m }

\* C11: in every finalize() of a level 1 message with a finalizer the
\* 'destroyed' event is written first and the finalizer called next: each
\* call of the finalizer directly follows a 'destroyed' event of the message.
C11_DestroyedBeforeCallback ==
    \A i \in DOMAIN effects :
        (effects[i][1] = "call" /\ msgs[effects[i][3]].level = 1) =>
            /\ i > 1
            /\ effects[i - 1] =
                 << "log", "destroyed", effects[i][3],
                    msgs[effects[i][3]].source, msgs[effects[i][3]].m_type >>

\* finalize() has been called twice on a level 1 message with a finalizer.
C11_Witness ==
    \E m \in Ids :
        /\ msgs[m].level = 1 /\ msgs[m].finalizer # None
        /\ fin_calls[m] = 2 /\ Len(effects) = 5
        /\ effects[4][1] = "log" /\ effects[5][1] = "call"

\* C12: construction of a level 1 message writes one 'created' event, before
\* any 'destroyed' event of the message, and each finalize() of it writes one
\* 'destroyed' event; construction and finalize() of a message of another
\* level write no event, so that every event of such a message is one the
\* caller logged itself; addError and addResponse write no event.
C12_LoggingOnlyAtLevelOne ==
    /\ [](\A m \in Ids :
            /\ Cardinality(LogEvents(m, "created")) =
                 (IF msgs[m].level = 1 THEN 1 ELSE 0)
                   + Cardinality(CallerLogged(m, "created"))
            /\ Cardinality(LogEvents(m, "destroyed")) =
                 (IF msgs[m].level = 1 THEN fin_calls[m] ELSE 0)
                   + Cardinality(CallerLogged(m, "destroyed"))
            /\ msgs[m].level = 1 =>
                 \E i \in LogEvents(m, "created") :
                    \A j \in LogEvents(m, "destroyed") : i < j)
    /\ [][ \A m \in Ids :
             added'[m] # added[m] => effects' = effects ]_vars

\* A level 2 message with a finalizer got an error and a response and was
\* finalized: the finalizer ran and the only event is the 'created' that the
\* caller logged afterwards.
C12_Witness ==
    \E m \in Ids :
        /\ msgs[m].level = 2 /\ fin_calls[m] = 1
        /\ Len(added[m][1]) = 1 /\ Len(added[m][2]) = 1
        /\ logged[m] = << "created" >>
        /\ effects = << << "call", msgs[m].finalizer, m >>,
                        << "log", "created", m, msgs[m].source,
                           msgs[m].m_type >> >>

\* C13: hasErrors() is true exactly when addError has been called at least
\* once and hasResponses() exactly when addResponse has been called at least
\* once; both are false for a new message.
C13_HasErrorsHasResponses ==
    \A m \in Ids :
        /\ hasErrors(msgs[m]) <=> Len(added[m][1]) > 0
        /\ hasResponses(msgs[m]) <=> Len(added[m][2]) > 0

\* Two addResponse calls and one addError call without exception, then one
\* finalize(): both predicates are true.
C13_Witness ==
    \E m \in Ids :
        /\ Len(added[m][2]) = 2 /\ Len(added[m][1]) = 1
        /\ ~hasException(added[m][1][1])
        /\ fin_calls[m] = 1
        /\ hasResponses(msgs[m]) /\ hasErrors(msgs[m])

\* C14: ref_count is 0 for a message that has been constructed and not yet
\* dispatched, and it is never negative: it is the number of recipients
\* that were counted and have not signalled done.
C14_RefCountNeverNegative ==
    \A m \in Ids :
        /\ msgs[m].ref_count >= 0
        /\ phase[m] = "queued" => msgs[m].ref_count = 0
        /\ msgs[m].ref_count =
             Cardinality({ r \in Recipients :
                             rstate[m][r] \in
                               { "counted", "delivered", "processed" } })

\* One of two recipients has signalled done, the other has not.
C14_Witness ==
    \E m \in Ids :
        /\ nmod = 2 /\ msgs[m].ref_count = 1
        /\ \E r \in Recipients : rstate[m][r] = "done"

\* C15: an error reports hasException() exactly when it was constructed
\* with an exception, and no call on the message changes an error that was
\* added.
C15_HasExceptionFixed ==
    /\ [](\A m \in Ids : \A i \in DOMAIN msgs[m].m_errors :
            \E a \in ErrorCtorArgs :
               /\ a[1] = msgs[m].m_errors[i].source
               /\ a[2] = msgs[m].m_errors[i].message
               /\ hasException(msgs[m].m_errors[i]) <=> a[3] # None)
    /\ [][ \A m \in Ids : \A i \in DOMAIN msgs[m].m_errors :
             /\ i \in DOMAIN msgs'[m].m_errors
             /\ hasException(msgs'[m].m_errors[i])
                  <=> hasException(msgs[m].m_errors[i]) ]_vars

\* A message holds a fatal error and a warning and has been finalized.
C15_Witness ==
    \E m \in Ids :
        /\ Len(msgs[m].m_errors) = 2
        /\ hasException(msgs[m].m_errors[1])
        /\ ~hasException(msgs[m].m_errors[2])
        /\ fin_calls[m] > 0 /\ hasResponses(msgs[m])

\* C16: SyncMessage(source) gives a message of type 'sync' with sync true,
\* the given source, no data, no finalizer, level 1, no errors, no responses
\* and ref_count 0; 'sync' is one of the built-in message types.
C16_SyncMessageFields ==
    /\ [][ \A source \in Sources :
             ConstructSync(source) =>
                /\ Len(msgs') = 1
                /\ getType(msgs'[1]) = "sync"
                /\ getSource(msgs'[1]) = source
                /\ msgs'[1].sync = TRUE
                /\ getData(msgs'[1]) = None
                /\ msgs'[1].finalizer = None
                /\ msgs'[1].level = 1
                /\ getErrors(msgs'[1]) = << >>
                /\ getResponses(msgs'[1]) = << >>
                /\ msgs'[1].ref_count = 0 ]_vars
    /\ []("sync" \in BuiltinMessages /\ "sync" \in valid_messages)

\* A SyncMessage has just been constructed by the module "camera".
C16_Witness ==
    /\ Len(msgs) = 1
    /\ msgs[1].m_type = "sync" /\ msgs[1].source = "camera" /\ msgs[1].sync
    /\ CallsMade(1) = 0 /\ fin_calls[1] = 0
    /\ Len(effects) = 1

\* C17: finalize() has no single-fire guard: k calls call the finalizer k
\* times and write k 'destroyed' events at level 1 (next to those the caller
\* logged itself), whatever ref_count is, and a call of finalize() leaves
\* ref_count (and the whole message) alone.
C17_FinalizeNotIdempotent ==
    /\ [](\A m \in Ids :
            /\ CallbackCalls(m) =
                 (IF msgs[m].finalizer # None THEN fin_calls[m] ELSE 0)
            /\ msgs[m].level = 1 =>
                 Cardinality(LogEvents(m, "destroyed")) =
                    fin_calls[m] + Cardinality(CallerLogged(m, "destroyed")))
    /\ [][ \A m \in Ids :
             fin_calls'[m] # fin_calls[m] =>
                /\ fin_calls'[m] = fin_calls[m] + 1
                /\ msgs' = msgs ]_vars

\* finalize() was called twice while ref_count was 1 and the finalizer ran
\* twice.
C17_Witness ==
    \E m \in Ids :
        /\ fin_calls[m] = 2 /\ CallbackCalls(m) = 2
        /\ msgs[m].ref_count = 1 /\ msgs[m].level = 1
        /\ logged[m] = << >>
        /\ Cardinality(LogEvents(m, "destroyed")) = 2

\* C18: every message the dispatcher has admitted, whatever the number of
\* its recipients (none included), is eventually finalized when every
\* recipient it was delivered to signals done; a dispatched message whose
\* recipients are all done has been finalized, and no step drops a message
\* or takes it back out of dispatch.
C18_EventuallyFinalized ==
    /\ \A m \in 1 .. MaxMessages :
          (m \in Ids /\ phase[m] # "queued") ~> (m \in Ids /\ Finalized(m))
    /\ [](\A m \in Ids :
            (phase[m] = "dispatched" /\ AllDone(m)) => Finalized(m))
    /\ [][ \A m \in Ids :
             /\ m \in DOMAIN msgs'
             /\ phase[m] # "queued" => phase'[m] # "queued"
             /\ Finalized(m) => Finalized(m)' ]_vars

\* With an empty module list two messages, the second with a finalizer,
\* have been dispatched and finalized, and the finalizer has been called.
C18_Witness ==
    /\ nmod = 0 /\ Len(msgs) = 2
    /\ phase[2] = "dispatched" /\ Finalized(1) /\ Finalized(2)
    /\ msgs[2].finalizer # None /\ CallbackCalls(2) = 1

\* C19: getErrors() is the arguments of the addError calls in call order and
\* getResponses() the arguments of the addResponse calls in call order; no
\* step removes or reorders an entry, and a step that adds to one list
\* leaves the other alone.
C19_AppendOnlyInCallOrder ==
    /\ [](\A m \in Ids :
            /\ getErrors(msgs[m]) = added[m][1]
            /\ getResponses(msgs[m]) = added[m][2])
    /\ [][ \A m \in Ids :
             /\ SubSeq(getErrors(msgs'[m]), 1, Len(getErrors(msgs[m])))
                  = getErrors(msgs[m])
             /\ SubSeq(getResponses(msgs'[m]), 1, Len(getResponses(msgs[m])))
                  = getResponses(msgs[m])
             /\ \/ getErrors(msgs'[m]) = getErrors(msgs[m])
                \/ getResponses(msgs'[m]) = getResponses(msgs[m]) ]_vars

\* Two different errors, the second with the empty source, and a response
\* were added and the message was finalized twice.
C19_Witness ==
    \E m \in Ids :
        /\ Len(getErrors(msgs[m])) = 2 /\ Len(getResponses(msgs[m])) = 1
        /\ getErrors(msgs[m])[1].source = "camera"
        /\ getErrors(msgs[m])[2].source = ""
        /\ fin_calls[m] = 2

====
